---- MODULE Spec2Model ----
(***************************************************************************)
(* Model of video_tagger.py: the sequential pipeline                       *)
(*   process_videos -> analyze_video -> (is_valid_video_file,              *)
(*   upload_video_to_file_api, wait_for_file_processing, generate_content) *)
(* followed by main's format_output and save_output.                       *)
(* The remote service, the clock's jitter and the files on disk are the    *)
(* environment; every remote call is one step of the model.                *)
(* Text is a sequence of one-character strings, so that strip, lower,      *)
(* split, "in" and startswith are computed as Python computes them.        *)
(***************************************************************************)
EXTENDS Integers, Sequences, FiniteSets, TLC

(***************************************************************************)
(* Bounds of the model (not program constants).                            *)
(***************************************************************************)
MaxFiles == 2
MaxRows == 2
MaxOnTime == 2
MaxResults == 2
MaxOverrun == 5
MaxReruns == 1

(***************************************************************************)
(* Program constants: default arguments of the functions.                  *)
(***************************************************************************)
max_retries == 3
analyze_max_retries == 3
base_delay == 2
max_wait_time == 600
check_interval == 10
wait_time == 5
min_size_bytes == 10

(***************************************************************************)
(* Character strings.                                                      *)
(***************************************************************************)
Upper == <<"A","B","C","D","E","F","G","H","I","J","K","L","M",
           "N","O","P","Q","R","S","T","U","V","W","X","Y","Z">>
Letters == <<"a","b","c","d","e","f","g","h","i","j","k","l","m",
             "n","o","p","q","r","s","t","u","v","w","x","y","z">>

LowerChar(c) ==
    IF \E k \in 1..26 : Upper[k] = c
    THEN Letters[CHOOSE k \in 1..26 : Upper[k] = c]
    ELSE c

\* str.lower()
Lower(s) == [k \in 1..Len(s) |-> LowerChar(s[k])]

Whitespace == {" ", "\n"}

RECURSIVE LStrip(_)
LStrip(s) ==
    IF s # <<>> /\ Head(s) \in Whitespace THEN LStrip(Tail(s)) ELSE s

RECURSIVE RStrip(_)
RStrip(s) ==
    IF s # <<>> /\ s[Len(s)] \in Whitespace
    THEN RStrip(SubSeq(s, 1, Len(s) - 1))
    ELSE s

\* str.strip()
Strip(s) == RStrip(LStrip(s))

\* pat == s[k : k+len(pat)]
MatchAt(s, pat, k) ==
    /\ k + Len(pat) - 1 <= Len(s)
    /\ SubSeq(s, k, k + Len(pat) - 1) = pat

\* pat in s
Contains(s, pat) == \E k \in 1..(Len(s) + 1) : MatchAt(s, pat, k)

\* s.startswith(pat)
StartsWith(s, pat) == MatchAt(s, pat, 1)

\* s.find(pat) + 1, 0 when pat is not in s
IndexOf(s, pat) ==
    IF Contains(s, pat)
    THEN CHOOSE k \in 1..(Len(s) + 1) :
            /\ MatchAt(s, pat, k)
            /\ \A j \in 1..(k - 1) : ~MatchAt(s, pat, j)
    ELSE 0

\* s.split(pat, 1): one part when pat is not in s, else two parts
Split1(s, pat) ==
    IF IndexOf(s, pat) = 0
    THEN <<s>>
    ELSE <<SubSeq(s, 1, IndexOf(s, pat) - 1),
           SubSeq(s, IndexOf(s, pat) + Len(pat), Len(s))>>

\* s.split('\n')
RECURSIVE SplitLines(_)
SplitLines(s) ==
    IF IndexOf(s, <<"\n">>) = 0
    THEN <<s>>
    ELSE <<SubSeq(s, 1, IndexOf(s, <<"\n">>) - 1)>>
         \o SplitLines(SubSeq(s, IndexOf(s, <<"\n">>) + 1, Len(s)))

(***************************************************************************)
(* The literals of the source.                                             *)
(***************************************************************************)
sDescription == <<"D","e","s","c","r","i","p","t","i","o","n">>
sTags == <<"T","a","g","s">>
sFilename == <<"F","i","l","e","n","a","m","e">>
sColon == <<":">>
sNL == <<"\n">>
sSP == <<" ">>
sDash == <<"-", " ">>

LitDescription == sDescription \o sColon          \* "Description:"
LitTags == sTags \o sColon                        \* "Tags:"
LitDescriptionLower == Lower(sDescription)        \* "description"
LitTagsLower == Lower(sTags)                      \* "tags"
MarkDescriptionLower == Lower(LitDescription)     \* "description:"
MarkTagsLower == Lower(LitTags)                   \* "tags:"
CanonDescription == sDash \o LitDescription       \* "- Description:"
CanonTags == sDash \o LitTags                     \* "- Tags:"

(***************************************************************************)
(* Paths and the file validator.                                           *)
(* A path is a record: the directory it lies in, its name, whether it is   *)
(* a regular file, its size in bytes and the media type guessed for it     *)
(* ("" when mimetypes.guess_type returns None).                            *)
(***************************************************************************)
video_extensions ==
    { <<".","m","p","4">>, <<".","m","p","e","g">>, <<".","m","o","v">>,
      <<".","a","v","i">>, <<".","f","l","v">>, <<".","m","p","g">>,
      <<".","w","e","b","m">>, <<".","w","m","v">>, <<".","3","g","p">> }

\* Path.suffix: the name from its last dot on, "" without a dot after
\* the first character
Suffix(name) ==
    IF \E k \in 2..Len(name) : name[k] = "."
    THEN LET k == CHOOSE j \in 2..Len(name) :
                     /\ name[j] = "."
                     /\ \A m \in (j + 1)..Len(name) : name[m] # "."
         IN SubSeq(name, k, Len(name))
    ELSE <<>>

\* file_path.suffix.lower() in video_extensions
HasVideoExtension(path) == Lower(Suffix(path.name)) \in video_extensions

is_valid_video_file(path) ==
    /\ path.is_file
    /\ path.size >= min_size_bytes
    /\ HasVideoExtension(path)
    /\ (path.mime # "" => StartsWith(path.mime, <<"v","i","d","e","o","/">>))

NameA == <<"a",".","m","p","4">>
NameB == <<"b",".","M","O","V">>
NameN == <<"n",".","t","x","t">>
MimeVideo == <<"v","i","d","e","o","/","m","p","4">>
MimeText == <<"t","e","x","t","/","p","l","a","i","n">>

\* The files a directory may hold, in the order glob enumerates them: a
\* video, a truncated file of the same name one level down, a video with
\* an upper-case extension and no guessable media type, and a text file.
AllPaths ==
    << [dir |-> "", name |-> NameA, is_file |-> TRUE, size |-> 2048, mime |-> MimeVideo],
       [dir |-> "sub", name |-> NameA, is_file |-> TRUE, size |-> 4, mime |-> MimeVideo],
       [dir |-> "", name |-> NameB, is_file |-> TRUE, size |-> 2048, mime |-> <<>>],
       [dir |-> "", name |-> NameN, is_file |-> TRUE, size |-> 2048, mime |-> MimeText] >>

PathSet == {AllPaths[k] : k \in 1..Len(AllPaths)}

\* The listings of a directory: AllPaths restricted to at most MaxFiles
\* of its entries, in enumeration order
RECURSIVE Pick(_, _)
Pick(k, S) ==
    IF k > Len(AllPaths) THEN <<>>
    ELSE IF k \in S THEN <<AllPaths[k]>> \o Pick(k + 1, S)
    ELSE Pick(k + 1, S)

Listings ==
    {Pick(1, S) : S \in {T \in SUBSET (1..Len(AllPaths)) : Cardinality(T) <= MaxFiles}}

(***************************************************************************)
(* The tabular results file results.csv, as csv.reader yields it: a        *)
(* sequence of rows, the header first.  A row is a sequence of fields; a   *)
(* bad row is one on which the reader raises (csv.Error).                  *)
(***************************************************************************)
Field1 == <<"c","a","t">>
Field2 == <<"[","p","e","t","]">>
FieldErr == <<"E","R","R","O","R",":"," ","x">>

GoodRow(fields) == [bad |-> FALSE, fields |-> fields]
HeaderRow == GoodRow(<<sFilename, sDescription, sTags>>)
BadRow == [bad |-> TRUE, fields |-> <<>>]

RowKinds ==
    { GoodRow(<<NameA, Field1, Field2>>),
      GoodRow(<<NameB, Field2, Field1>>),
      GoodRow(<<NameA, FieldErr, <<>> >>),
      GoodRow(<<<<>>, Field1, Field2>>),
      BadRow }

\* the rows after the header: at most MaxRows rows, no row twice
RowSeqs ==
    UNION { {b \in [1..n -> RowKinds] : \A j, k \in 1..n : b[j] = b[k] => j = k}
            : n \in 0..MaxRows }

CsvFiles ==
    { [exists |-> FALSE, rows |-> <<>>], [exists |-> TRUE, rows |-> <<>>] }
    \cup { [exists |-> TRUE, rows |-> <<HeaderRow>> \o body] : body \in RowSeqs }

(***************************************************************************)
(* The generation endpoint's replies and the response handling of          *)
(* analyze_video.                                                          *)
(***************************************************************************)
TextCanon ==
    CanonDescription \o sSP \o Field1 \o sNL \o CanonTags \o sSP \o Field2
TextLower ==
    MarkDescriptionLower \o sSP \o Field1 \o sNL \o MarkTagsLower \o sSP \o Field2
TextUpper ==
    <<"D","E","S","C","R","I","P","T","I","O","N",":">> \o sSP \o Field1 \o sNL
    \o <<"T","A","G","S",":">> \o sSP \o Field2
TextWords == LitDescriptionLower \o sSP \o Field1 \o sSP \o LitTagsLower
TextPlain == Field1
TextEmpty == <<>>
TextBlank == <<" ", "\n">>

ResponseTexts ==
    {TextCanon, TextLower, TextUpper, TextWords, TextPlain, TextEmpty, TextBlank}

\* message of the exception the generation call raises
GenErrors == {"429 quota exceeded"}
IndexErrorMsg == "list index out of range"

MsgInvalid == "Invalid or unsupported video file"
MsgUpload == "Failed to upload video to File API"
MsgProcessing == "Video processing failed or timed out"
MsgEmpty == "Empty response received after multiple attempts"

ErrorResult(path, msg) == [filename |-> path.name, error |-> msg]
SuccessResult(path, text) == [filename |-> path.name, response |-> text]
IsError(r) == "error" \in DOMAIN r
IsSuccess(r) == "response" \in DOMAIN r

\* not response.text or response.text.strip() == ""
IsEmptyResponse_nostrip(text) == text = <<>>
IsEmptyResponse(text) == text = <<>> \/ Strip(text) = <<>>

\* not ("Description:" in text and "Tags:" in text)
FormatIncorrect(text) ==
    ~(Contains(text, LitDescription) /\ Contains(text, LitTags))

\* "description" in text.lower() and "tags" in text.lower()
MentionsBoth(text) ==
    /\ Contains(Lower(text), LitDescriptionLower)
    /\ Contains(Lower(text), LitTagsLower)

\* The loop over the lines: acc is formatted_text so far.  line.split(m, 1)[1]
\* raises IndexError when the marker is not in the line as written.
RECURSIVE Reformat(_, _)
Reformat(lines, acc) ==
    IF lines = <<>> THEN [raised |-> FALSE, text |-> acc]
    ELSE LET line == Strip(Head(lines)) IN
         IF Contains(Lower(line), MarkDescriptionLower)
         THEN IF Len(Split1(line, MarkDescriptionLower)) < 2
              THEN [raised |-> TRUE, text |-> acc]
              ELSE Reformat(Tail(lines),
                            acc \o CanonDescription
                                \o Strip(Split1(line, MarkDescriptionLower)[2])
                                \o sNL)
         ELSE IF Contains(Lower(line), MarkTagsLower)
         THEN IF Len(Split1(line, MarkTagsLower)) < 2
              THEN [raised |-> TRUE, text |-> acc]
              ELSE Reformat(Tail(lines),
                            acc \o CanonTags
                                \o Strip(Split1(line, MarkTagsLower)[2]))
         ELSE Reformat(Tail(lines), acc)

\* Lines 233-252: the text a non-empty reply is turned into, or the
\* IndexError raised on the way
FixResponse(reply) ==
    LET text == Strip(reply) IN
    IF FormatIncorrect(text) /\ MentionsBoth(text)
    THEN LET f == Reformat(SplitLines(text), <<>>) IN
         IF f.raised THEN [raised |-> TRUE, text |-> text]
         ELSE IF f.text # <<>> THEN [raised |-> FALSE, text |-> f.text]
         ELSE [raised |-> FALSE, text |-> text]
    ELSE [raised |-> FALSE, text |-> text]

(***************************************************************************)
(* State.                                                                  *)
(***************************************************************************)
VARIABLES
    video_path,         \* the target: [kind, files]; files is the glob enumeration
    results_csv,        \* results.csv on disk: [exists, rows]
    force_retry,        \* process_videos argument
    specific_file,      \* process_videos argument, <<>> for None
    last_output,        \* the texts earlier runs saved as results.csv, in order
    pc,                 \* position of the program
    video_files,        \* process_videos: the to-process list
    previous_results,   \* process_videos: reconstituted results
    previous_processed, \* process_videos: the skip set
    results,            \* process_videos: the result list
    i,                  \* process_videos: loop index (from 1)
    ret,                \* what analyze_video returned: <<>> or <<result>>
    up_retry,           \* upload_video_to_file_api: retry_count
    up_calls,           \* remote uploads invoked by this call
    up_sleeps,          \* sleeps made by this call
    up_delays,          \* delays slept by the running call, in order
    file_obj,           \* what the upload returned: "unset", "None", "file"
    elapsed,            \* wait_for_file_processing: elapsed_time at the loop top
    poll_state,         \* state name the last query reported, "" before
    poll_exit,          \* why the poller returned, "" before
    queries,            \* state queries made by this call of the poller
    processed_file,     \* what the poller returned: "unset", "None", "file"
    retry_count,        \* analyze_video: retry_count
    gen_calls,          \* generate_content calls made for this file
    gen_empties,        \* how many of them returned empty text
    gen_sleeps,         \* backoff sleeps made for this file
    error_message,      \* analyze_video: error_message, "" before
    reply,              \* response.text of the last call: <<>> or <<text>>
    invoked,            \* remote operations invoked so far: {<<path, op>>}
    analysed,           \* paths handed to analyze_video, in order
    csv_reads,          \* how often results.csv was opened
    pacing,             \* pacing sleeps made by process_videos
    pacing_delay,       \* length of the pacing sleep just made, 0 if none
    format_arg,         \* main: args.format as read at line 444, "" before
    saved,              \* main: <<>> or <<[path, content]>>, the file save_output wrote
    printed             \* main: <<>> or <<text>>, what was printed instead

inputs == <<video_path, results_csv, force_retry, specific_file, last_output>>
batch == <<video_files, previous_results, previous_processed, results, i>>
upvars == <<up_retry, up_calls, up_sleeps, up_delays, file_obj>>
pollvars == <<elapsed, poll_state, poll_exit, queries, processed_file>>
genvars == <<retry_count, gen_calls, gen_empties, gen_sleeps, error_message, reply>>
hist == <<invoked, analysed, csv_reads, pacing, pacing_delay>>
outvars == <<format_arg, saved, printed>>
vars == <<inputs, pc, batch, ret, upvars, pollvars, genvars, hist, outvars>>

IsDir == video_path.kind = "dir"
IsFile == video_path.kind = "file"

\* the path analyze_video is working on
CurPath == IF IsFile THEN video_path.files[1] ELSE video_files[i]

\* results.csv with at most one row after the header
SmallCsvFiles == {c \in CsvFiles : Len(c.rows) <= 2}

\* a directory run: every results.csv when the file is consulted for the
\* whole directory, the small ones with --retry or --specific
DirInputs ==
    /\ video_path \in [kind : {"dir"}, files : Listings]
    /\ \/ /\ results_csv \in CsvFiles
          /\ force_retry = FALSE
          /\ specific_file = <<>>
       \/ /\ results_csv \in SmallCsvFiles
          /\ force_retry \in BOOLEAN
          /\ specific_file \in {<<>>, NameA}
          /\ force_retry \/ specific_file # <<>>

\* a single-file run
FileInputs ==
    /\ video_path \in [kind : {"file"}, files : {<<f>> : f \in PathSet}]
    /\ results_csv \in SmallCsvFiles
    /\ force_retry = FALSE
    /\ specific_file = <<>>

\* the target is neither a file nor a directory
MissingInputs ==
    /\ video_path = [kind |-> "none", files |-> <<>>]
    /\ results_csv \in SmallCsvFiles
    /\ force_retry = FALSE
    /\ specific_file = <<>>

LocalsInit ==
    /\ ret = <<>>
    /\ up_retry = 0 /\ up_calls = 0 /\ up_sleeps = 0 /\ up_delays = <<>>
    /\ file_obj = "unset"
    /\ elapsed = 0 /\ poll_state = "" /\ poll_exit = "" /\ queries = 0
    /\ processed_file = "unset"
    /\ retry_count = 0 /\ gen_calls = 0 /\ gen_empties = 0 /\ gen_sleeps = 0
    /\ error_message = "" /\ reply = <<>>

Init ==
    /\ DirInputs \/ FileInputs \/ MissingInputs
    /\ last_output = <<>>
    /\ pc = "start"
    /\ video_files = <<>>
    /\ previous_results = <<>>
    /\ previous_processed = {}
    /\ results = <<>>
    /\ i = 0
    /\ LocalsInit
    /\ invoked = {}
    /\ analysed = <<>>
    /\ csv_reads = 0
    /\ pacing = 0
    /\ pacing_delay = 0
    /\ format_arg = ""
    /\ saved = <<>>
    /\ printed = <<>>

(***************************************************************************)
(* process_videos: collecting the files and the previous results.          *)
(***************************************************************************)
\* lines 297-301: the filter of the directory scan
Wanted_ext(f) == HasVideoExtension(f)
Wanted(f) ==
    /\ HasVideoExtension(f)
    /\ ~(specific_file # <<>> /\ f.name # specific_file)

\* lines 282-303 and 352-355
CollectVideoFiles ==
    /\ pc = "start"
    /\ \/ /\ IsFile
          /\ pc' = "single"
          /\ UNCHANGED video_files
       \/ /\ IsDir
          /\ video_files' = SelectSeq(video_path.files, Wanted)
          /\ pc' = "previous"
       \/ /\ ~IsFile /\ ~IsDir
          /\ pc' = "done"
          /\ UNCHANGED video_files
    /\ i' = 1
    /\ UNCHANGED <<inputs, previous_results, previous_processed, results, ret,
                   upvars, pollvars, genvars, hist, outvars>>

\* lines 317 and 323: the row names a file and has a description and tags
RowPopulated_desc(row) ==
    /\ Len(row.fields) >= 3
    /\ row.fields[1] # <<>>
    /\ row.fields[2] # <<>>
RowPopulated(row) ==
    /\ Len(row.fields) >= 3
    /\ row.fields[1] # <<>>
    /\ row.fields[2] # <<>>
    /\ row.fields[3] # <<>>

\* line 327: f"- Description: {description}\n- Tags: {tags}"
Reconstitute(description, tags) ==
    CanonDescription \o sSP \o description \o sNL \o CanonTags \o sSP \o tags

\* lines 316-329: the loop over the rows; stops where the reader raises
RECURSIVE ReadRows(_, _, _)
ReadRows(rows, processed, prev) ==
    IF rows = <<>> THEN [raised |-> FALSE, processed |-> processed, prev |-> prev]
    ELSE IF Head(rows).bad
    THEN [raised |-> TRUE, processed |-> processed, prev |-> prev]
    ELSE IF RowPopulated(Head(rows))
    THEN ReadRows(Tail(rows),
                  processed \cup {Head(rows).fields[1]},
                  Append(prev, [filename |-> Head(rows).fields[1],
                                response |-> Reconstitute(Head(rows).fields[2],
                                                          Head(rows).fields[3])]))
    ELSE ReadRows(Tail(rows), processed, prev)

\* lines 313-329: next(reader) raises StopIteration on a file without rows
ReadCsv(rows) ==
    IF rows = <<>> THEN [raised |-> TRUE, processed |-> {}, prev |-> <<>>]
    ELSE ReadRows(Tail(rows), {}, <<>>)

\* line 309: if not force_retry and Path("results.csv").exists()
ConsultPrevious_always == results_csv.exists
ConsultPrevious == ~force_retry /\ results_csv.exists

\* lines 305-336
CheckPreviousResults ==
    /\ pc = "previous"
    /\ IF ConsultPrevious
       THEN LET r == ReadCsv(results_csv.rows)
                Keep(f) == f.name \notin r.processed
            IN
            /\ csv_reads' = csv_reads + 1
            /\ previous_processed' = r.processed
            /\ previous_results' = r.prev
            /\ video_files' = IF ~r.raised /\ r.processed # {}
                              THEN SelectSeq(video_files, Keep)
                              ELSE video_files
       ELSE UNCHANGED <<csv_reads, previous_processed, previous_results, video_files>>
    /\ pc' = "loop"
    /\ UNCHANGED <<inputs, results, i, ret, upvars, pollvars, genvars,
                   invoked, analysed, pacing, pacing_delay, outvars>>

(***************************************************************************)
(* analyze_video.                                                          *)
(***************************************************************************)
\* lines 155-166 (and 81, the start of the upload call)
AnalyzeEntry(path) ==
    /\ analysed' = Append(analysed, path)
    /\ IF is_valid_video_file(path)
       THEN /\ pc' = "upload"
            /\ ret' = <<>>
       ELSE /\ pc' = "analyzed"
            /\ ret' = <<ErrorResult(path, MsgInvalid)>>
    /\ pacing_delay' = 0
    /\ UNCHANGED <<inputs, batch, upvars, pollvars, genvars, invoked, csv_reads, pacing,
                   outvars>>

\* line 287
AnalyzeSingle ==
    /\ pc = "single"
    /\ AnalyzeEntry(video_path.files[1])

\* lines 339-340
AnalyzeNext ==
    /\ pc = "loop"
    /\ i <= Len(video_files)
    /\ AnalyzeEntry(video_files[i])

\* line 82: while retry_count <= max_retries
UploadLoopCond(rc) == rc <= max_retries

\* line 92: if retry_count <= max_retries
UploadRetryAllowed_lt(rc) == rc < max_retries
UploadRetryAllowed(rc) == rc <= max_retries

\* 2 ** n
RECURSIVE Pow2(_)
Pow2(n) == IF n = 0 THEN 1 ELSE 2 * Pow2(n - 1)

\* random.uniform(0, 1), in whole seconds
Jitter01 == 0..1

\* line 93: delay = base_delay * (2 ** retry_count) + random.uniform(0, 1)
UploadDelay_linear(rc, jitter) == base_delay * 2 * rc + jitter
UploadDelay(rc, jitter) == base_delay * Pow2(rc) + jitter

\* lines 82-101: one pass of the loop of upload_video_to_file_api.
\* up_delays lists the delays the running call has slept; it is empty
\* again when the call has returned.
UploadTry ==
    /\ pc = "upload"
    /\ invoked' = invoked \cup {<<CurPath, "upload_file">>}
    /\ up_calls' = up_calls + 1
    /\ \/ /\ file_obj' = "file"
          /\ pc' = "uploaded"
          /\ up_delays' = <<>>
          /\ UNCHANGED <<up_retry, up_sleeps>>
       \/ /\ up_retry' = up_retry + 1
          /\ IF UploadRetryAllowed(up_retry')
             THEN /\ up_sleeps' = up_sleeps + 1
                  /\ \E jitter \in Jitter01 :
                        IF UploadLoopCond(up_retry')
                        THEN /\ up_delays' = Append(up_delays,
                                                    UploadDelay(up_retry', jitter))
                             /\ pc' = "upload"
                             /\ UNCHANGED file_obj
                        ELSE /\ up_delays' = <<>>
                             /\ pc' = "uploaded"
                             /\ file_obj' = "None"
             ELSE /\ pc' = "uploaded"
                  /\ file_obj' = "None"
                  /\ up_delays' = <<>>
                  /\ UNCHANGED up_sleeps
    /\ UNCHANGED <<inputs, batch, ret, pollvars, genvars,
                   analysed, csv_reads, pacing, pacing_delay, outvars>>

\* lines 170 and 178: "if not file_obj", "if not processed_file"
IsNone_never(x) == FALSE
IsNone(x) == x = "None"

\* lines 169-177 and 116-117: the upload has returned
AfterUpload ==
    /\ pc = "uploaded"
    /\ IF IsNone(file_obj)
       THEN /\ ret' = <<ErrorResult(CurPath, MsgUpload)>>
            /\ pc' = "analyzed"
       ELSE /\ ret' = <<>>
            /\ pc' = "poll"
    /\ up_retry' = 0 /\ up_calls' = 0 /\ up_sleeps' = 0
    /\ UNCHANGED <<inputs, batch, up_delays, file_obj, pollvars, genvars, hist, outvars>>

\* the state names the remote reports
StateNames == {"ACTIVE", "FAILED", "PROCESSING"}

\* line 122: if elapsed_time > max_wait_time
TimedOut_ge(e) == e >= max_wait_time
TimedOut_late(e) == e > max_wait_time + check_interval
TimedOut(e) == e > max_wait_time

\* line 139: when time.sleep(check_interval) ends, as elapsed time since
\* start_time.  The sleep ends on time, or late (the process was held up):
\* at the deadline or one interval past it.  The model follows at most
\* MaxOnTime sleeps that end on time.
SleepEnds(e) ==
    {t \in {e + check_interval} : e < MaxOnTime * check_interval}
    \cup {t \in {max_wait_time, max_wait_time + check_interval} : t >= e + check_interval}

\* lines 130 and 133: the state names that end the wait
StateActive(st) == st = "ACTIVE"
StateFailed_never(st) == FALSE
StateFailed(st) == st = "FAILED"

\* lines 119-142: one pass of the loop of wait_for_file_processing; ends
\* is when the sleep of this pass may end.  elapsed is elapsed_time as
\* measured at the top of this pass; it is a local of the call and is gone
\* when the call returns.
PollPass(ends) ==
    /\ pc = "poll"
    /\ IF TimedOut(elapsed)
       THEN /\ processed_file' = "None"
            /\ poll_exit' = "timeout"
            /\ pc' = "polled"
            /\ elapsed' = 0
            /\ UNCHANGED <<poll_state, queries, invoked>>
       ELSE /\ invoked' = invoked \cup {<<CurPath, "get_file">>}
            /\ queries' = queries + 1
            /\ \/ /\ processed_file' = "None"
                  /\ poll_exit' = "error"
                  /\ pc' = "polled"
                  /\ elapsed' = 0
                  /\ UNCHANGED poll_state
               \/ \E st \in StateNames :
                     /\ poll_state' = st
                     /\ IF StateActive(st)
                        THEN /\ processed_file' = "file"
                             /\ poll_exit' = "active"
                             /\ pc' = "polled"
                             /\ elapsed' = 0
                        ELSE IF StateFailed(st)
                        THEN /\ processed_file' = "None"
                             /\ poll_exit' = "failed"
                             /\ pc' = "polled"
                             /\ elapsed' = 0
                        ELSE /\ elapsed' \in ends
                             /\ pc' = "poll"
                             /\ UNCHANGED <<processed_file, poll_exit>>
    /\ UNCHANGED <<inputs, batch, ret, upvars, genvars,
                   analysed, csv_reads, pacing, pacing_delay, outvars>>

\* the poller while the batch runs: the clock of SleepEnds
PollIteration == PollPass(SleepEnds(elapsed))

\* lines 177-200: the poller has returned
AfterPoll ==
    /\ pc = "polled"
    /\ IF IsNone(processed_file)
       THEN /\ ret' = <<ErrorResult(CurPath, MsgProcessing)>>
            /\ pc' = "analyzed"
       ELSE /\ ret' = <<>>
            /\ pc' = "generate"
    /\ queries' = 0
    /\ UNCHANGED <<inputs, batch, upvars, elapsed, poll_state, poll_exit, processed_file,
                   genvars, hist, outvars>>

\* line 201: while retry_count <= max_retries
GenLoopCond(rc) == rc <= analyze_max_retries

\* lines 221 and 263: if retry_count <= max_retries
GenRetryAllowed_lt(rc) == rc < analyze_max_retries
GenRetryAllowed(rc) == rc <= analyze_max_retries

MsgExceeded == "Maximum retry attempts exceeded"

\* The outcomes of model.generate_content(...): it raises, or returns text
GenOutcomes ==
    [raises : {TRUE}, msg : GenErrors, text : {<<>>}]
    \cup [raises : {FALSE}, msg : {""}, text : ResponseTexts]

\* lines 220-230 and 260-278: a failed try; msg is what is returned once
\* the retries are used up
GenFailed(msg) ==
    /\ retry_count' = retry_count + 1
    /\ IF GenRetryAllowed(retry_count')
       THEN /\ gen_sleeps' = gen_sleeps + 1
            /\ IF GenLoopCond(retry_count')
               THEN pc' = "generate" /\ ret' = <<>>
               ELSE pc' = "analyzed" /\ ret' = <<ErrorResult(CurPath, MsgExceeded)>>
       ELSE /\ pc' = "analyzed"
            /\ ret' = <<ErrorResult(CurPath, msg)>>
            /\ UNCHANGED gen_sleeps

\* lines 201-278: one pass of the loop of analyze_video
GenerateTry ==
    /\ pc = "generate"
    /\ invoked' = invoked \cup {<<CurPath, "generate_content">>}
    /\ gen_calls' = gen_calls + 1
    /\ \E o \in GenOutcomes :
          /\ reply' = IF o.raises THEN <<>> ELSE <<o.text>>
          /\ IF o.raises
             THEN /\ error_message' = o.msg
                  /\ GenFailed(o.msg)
                  /\ UNCHANGED gen_empties
             ELSE IF IsEmptyResponse(o.text)
             THEN /\ gen_empties' = gen_empties + 1
                  /\ GenFailed(MsgEmpty)
                  /\ UNCHANGED error_message
             ELSE IF FixResponse(o.text).raised
             THEN /\ error_message' = IndexErrorMsg
                  /\ GenFailed(IndexErrorMsg)
                  /\ UNCHANGED gen_empties
             ELSE /\ ret' = <<SuccessResult(CurPath, FixResponse(o.text).text)>>
                  /\ pc' = "analyzed"
                  /\ UNCHANGED <<retry_count, gen_empties, gen_sleeps, error_message>>
    /\ UNCHANGED <<inputs, batch, upvars, pollvars,
                   analysed, csv_reads, pacing, pacing_delay, outvars>>

(***************************************************************************)
(* process_videos: collecting the results.                                 *)
(***************************************************************************)
\* lines 288 and 341: if result  (a dict is true unless it is empty)
ResultTruthy_success(r) == "response" \in DOMAIN r
ResultTruthy(r) == DOMAIN r # {}

\* the locals of analyze_video and of the calls it made are gone
LocalsReset ==
    /\ ret' = <<>>
    /\ up_retry' = 0 /\ up_calls' = 0 /\ up_sleeps' = 0 /\ up_delays' = <<>>
    /\ file_obj' = "unset"
    /\ elapsed' = 0 /\ poll_state' = "" /\ poll_exit' = "" /\ queries' = 0
    /\ processed_file' = "unset"
    /\ retry_count' = 0 /\ gen_calls' = 0 /\ gen_empties' = 0 /\ gen_sleeps' = 0
    /\ error_message' = "" /\ reply' = <<>>

\* lines 288-289 and 355
AppendSingle ==
    /\ pc = "analyzed"
    /\ IsFile
    /\ results' = IF ResultTruthy(ret[1]) THEN Append(results, ret[1]) ELSE results
    /\ pc' = "done"
    /\ LocalsReset
    /\ UNCHANGED <<inputs, video_files, previous_results, previous_processed, i, hist,
                   outvars>>

\* random.uniform(1, 3), in whole seconds
Jitter13 == 1..3

\* line 345: if i < len(video_files) - 1, with i counted from 1
NotLastFile_always(k, n) == k <= n
NotLastFile(k, n) == k < n

\* lines 341-348
AppendResult ==
    /\ pc = "analyzed"
    /\ IsDir
    /\ results' = IF ResultTruthy(ret[1]) THEN Append(results, ret[1]) ELSE results
    /\ IF NotLastFile(i, Len(video_files))
       THEN /\ \E jitter \in Jitter13 : pacing_delay' = wait_time + jitter
            /\ pacing' = pacing + 1
       ELSE UNCHANGED <<pacing, pacing_delay>>
    /\ i' = i + 1
    /\ pc' = "loop"
    /\ LocalsReset
    /\ UNCHANGED <<inputs, video_files, previous_results, previous_processed,
                   invoked, analysed, csv_reads, outvars>>

\* line 351: results.extend(previous_results)
Extend_front(fresh, previous) == previous \o fresh
Extend(fresh, previous) == fresh \o previous

\* lines 351 and 355
ExtendPrevious ==
    /\ pc = "loop"
    /\ i > Len(video_files)
    /\ results' = Extend(results, previous_results)
    /\ pc' = "done"
    /\ pacing_delay' = 0
    /\ UNCHANGED <<inputs, video_files, previous_results, previous_processed, i, ret,
                   upvars, pollvars, genvars, invoked, analysed, csv_reads, pacing,
                   outvars>>

(***************************************************************************)
(* format_output, save_output and main.                                    *)
(* The message of an error result is carried in a text as one element: it  *)
(* holds no comma, quote or line break.                                    *)
(***************************************************************************)
sError == <<"E","R","R","O","R",":"," ">>
sFile == <<"F","i","l","e",":"," ">>
sErrorTxt == <<"E","r","r","o","r",":"," ">>
sCsv == <<"c","s","v">>
sTxt == <<"t","x","t">>
sResults == <<"r","e","s","u","l","t","s">>
sOutTxt == <<"o","u","t",".","t","x","t">>

\* line 370
HeaderFields == <<sFilename, sDescription, sTags>>

\* s.replace(pat, ''): every occurrence of pat is taken out, left to right
RECURSIVE Remove(_, _)
Remove(s, pat) ==
    IF IndexOf(s, pat) = 0 THEN s
    ELSE SubSeq(s, 1, IndexOf(s, pat) - 1)
         \o Remove(SubSeq(s, IndexOf(s, pat) + Len(pat), Len(s)), pat)

\* lines 388-395: the pass over the lines that looks for the two prefixes
RECURSIVE StrictPass(_, _, _)
StrictPass(lines, description, tags) ==
    IF lines = <<>> THEN <<description, tags>>
    ELSE LET line == Strip(Head(lines)) IN
         IF StartsWith(line, CanonDescription)
         THEN StrictPass(Tail(lines), Strip(Remove(line, CanonDescription)), tags)
         ELSE IF StartsWith(line, CanonTags)
         THEN StrictPass(Tail(lines), description, Strip(Remove(line, CanonTags)))
         ELSE StrictPass(Tail(lines), description, tags)

\* lines 401-412: the pass over the lower-cased lines
RECURSIVE LenientPass(_, _, _)
LenientPass(lines, description, tags) ==
    IF lines = <<>> THEN <<description, tags>>
    ELSE LET line == Lower(Strip(Head(lines))) IN
         IF Contains(line, MarkDescriptionLower)
         THEN LenientPass(Tail(lines),
                          IF Len(Split1(line, MarkDescriptionLower)) > 1
                          THEN Strip(Split1(line, MarkDescriptionLower)[2])
                          ELSE description,
                          tags)
         ELSE IF Contains(line, MarkTagsLower)
         THEN LenientPass(Tail(lines),
                          description,
                          IF Len(Split1(line, MarkTagsLower)) > 1
                          THEN Strip(Split1(line, MarkTagsLower)[2])
                          ELSE tags)
         ELSE LenientPass(Tail(lines), description, tags)

\* line 397: if not description and not tags
NothingFound_either(found) == found[1] = <<>> \/ found[2] = <<>>
NothingFound(found) == found[1] = <<>> /\ found[2] = <<>>

\* line 376: f"ERROR: {result['error']}", ""
ErrorFields_tagged(r) == <<r.filename, sError \o <<r.error>>, <<r.error>> >>
ErrorFields(r) == <<r.filename, sError \o <<r.error>>, <<>> >>

\* lines 374-414: the fields handed to writer.writerow for one result
FormatRow(r) ==
    IF "error" \in DOMAIN r
    THEN ErrorFields(r)
    ELSE LET response_lines == SplitLines(Strip(r.response))
             strict == StrictPass(response_lines, <<>>, <<>>)
             found == IF NothingFound(strict)
                      THEN LenientPass(response_lines, strict[1], strict[2])
                      ELSE strict
         IN <<r.filename, found[1], found[2]>>

\* csv.writer, excel dialect: a field is quoted when it holds the
\* delimiter, a quote or a character of the line terminator; a quote
\* inside is doubled; a row ends with "\r\n"
NeedsQuote(field) == \E k \in 1..Len(field) : field[k] \in {",", "\"", "\r", "\n"}

RECURSIVE DoubleQuotes(_)
DoubleQuotes(field) ==
    IF field = <<>> THEN <<>>
    ELSE (IF Head(field) = "\"" THEN <<"\"", "\"">> ELSE <<Head(field)>>)
         \o DoubleQuotes(Tail(field))

QuoteField(field) ==
    IF NeedsQuote(field) THEN <<"\"">> \o DoubleQuotes(field) \o <<"\"">> ELSE field

RECURSIVE JoinFields(_)
JoinFields(fields) ==
    IF Len(fields) = 1 THEN QuoteField(fields[1])
    ELSE QuoteField(Head(fields)) \o <<",">> \o JoinFields(Tail(fields))

WriteRow(fields) == JoinFields(fields) \o <<"\r", "\n">>

\* lines 373-414: the loop over the results
RECURSIVE WriteRows(_)
WriteRows(rs) ==
    IF rs = <<>> THEN <<>> ELSE WriteRow(FormatRow(Head(rs))) \o WriteRows(Tail(rs))

\* "-" * 80
Dashes == [k \in 1..80 |-> "-"]

\* lines 418-426
RECURSIVE TxtBlocks(_)
TxtBlocks(rs) ==
    IF rs = <<>> THEN <<>>
    ELSE sFile \o Head(rs).filename \o sNL
         \o (IF "error" \in DOMAIN Head(rs)
             THEN sErrorTxt \o <<Head(rs).error>>
             ELSE Head(rs).response)
         \o sNL \o Dashes \o sNL \o TxtBlocks(Tail(rs))

\* lines 357-426, for format_type 'csv' and 'txt'
format_output(rs, format_type) ==
    IF format_type = "csv"
    THEN WriteRow(HeaderFields) \o WriteRows(rs)
    ELSE TxtBlocks(rs)

\* the command line: --format and --output (<<>> when not given)
FormatArgs == {"csv", "txt"}
OutputArgs == {<<>>, sResults, sOutTxt}
FormatChars == [csv |-> sCsv, txt |-> sTxt]

\* lines 448-450: the format is the extension of a path without one
OutputPath(output, format_type) ==
    IF Suffix(output) = <<>>
    THEN output \o <<".">> \o FormatChars[format_type]
    ELSE output

\* line 440: if not results
NoResults_never(rs) == FALSE
NoResults(rs) == rs = <<>>

\* lines 438-453: process_videos has returned
Main ==
    /\ pc = "done"
    /\ pc' = "exit"
    /\ IF NoResults(results)
       THEN UNCHANGED outvars
       ELSE \E format_type \in FormatArgs, output \in OutputArgs :
               LET formatted_output == format_output(results, format_type) IN
               /\ format_arg' = format_type
               /\ IF output # <<>>
                  THEN /\ saved' = <<[path |-> OutputPath(output, format_type),
                                      content |-> formatted_output]>>
                       /\ UNCHANGED printed
                  ELSE /\ printed' = <<formatted_output>>
                       /\ UNCHANGED saved
    /\ UNCHANGED <<inputs, batch, ret, upvars, pollvars, genvars, hist>>

Next ==
    \/ CollectVideoFiles
    \/ CheckPreviousResults
    \/ AnalyzeSingle
    \/ AnalyzeNext
    \/ UploadTry
    \/ AfterUpload
    \/ PollIteration
    \/ AfterPoll
    \/ GenerateTry
    \/ AppendSingle
    \/ AppendResult
    \/ ExtendPrevious
    \/ Main

Spec == Init /\ [][Next]_vars

(***************************************************************************)
(* format_output on its own: main is handed a list of at most MaxResults   *)
(* results of the shapes analyze_video and the reconstitution produce.     *)
(***************************************************************************)
FieldQuoted == <<"a"," ","\"","c","a","t","\"">>
FieldList == <<"[","p","e","t",","," ","s","u","n","]">>
TextTitle ==
    LitDescription \o sSP \o <<"C","a","t">> \o sNL \o LitTags \o sSP \o <<"[","P","e","t","]">>
TextOnlyDescription == CanonDescription \o sSP \o Field1
TextHollow ==
    CanonDescription \o sNL \o CanonTags \o sNL
    \o <<"a"," ">> \o MarkDescriptionLower \o sSP \o Field1

FmtResults ==
    { [filename |-> NameA, error |-> MsgProcessing],
      [filename |-> NameB, response |-> TextCanon],
      [filename |-> NameA, response |-> Reconstitute(FieldQuoted, FieldList)],
      [filename |-> NameB, response |-> FixResponse(TextLower).text],
      [filename |-> NameB, response |-> TextTitle],
      [filename |-> NameB, response |-> TextOnlyDescription],
      [filename |-> NameB, response |-> TextHollow],
      [filename |-> NameA, response |-> TextWords],
      [filename |-> NameA, response |-> TextPlain] }

FmtInit ==
    /\ video_path = [kind |-> "dir", files |-> <<>>]
    /\ results_csv = [exists |-> FALSE, rows |-> <<>>]
    /\ force_retry = TRUE
    /\ specific_file = <<>>
    /\ last_output = <<>>
    /\ pc = "done"
    /\ video_files = <<>>
    /\ previous_results = <<>>
    /\ previous_processed = {}
    /\ results \in UNION {[1..n -> FmtResults] : n \in 0..MaxResults}
    /\ i = 1
    /\ LocalsInit
    /\ invoked = {}
    /\ analysed = <<>>
    /\ csv_reads = 0
    /\ pacing = 0
    /\ pacing_delay = 0
    /\ format_arg = ""
    /\ saved = <<>>
    /\ printed = <<>>

FmtNext == Main

FmtSpec == FmtInit /\ [][FmtNext]_vars

(***************************************************************************)
(* wait_for_file_processing on its own, with the clock running on: a sleep *)
(* of check_interval ends after check_interval, or up to MaxOverrun later. *)
(* The program is sequential and keeps running, hence the fairness.        *)
(***************************************************************************)
PollInit ==
    /\ video_path = [kind |-> "file", files |-> <<AllPaths[1]>>]
    /\ results_csv = [exists |-> FALSE, rows |-> <<>>]
    /\ force_retry = FALSE
    /\ specific_file = <<>>
    /\ last_output = <<>>
    /\ pc = "poll"
    /\ video_files = <<>>
    /\ previous_results = <<>>
    /\ previous_processed = {}
    /\ results = <<>>
    /\ i = 1
    /\ ret = <<>>
    /\ up_retry = 0 /\ up_calls = 0 /\ up_sleeps = 0 /\ up_delays = <<>>
    /\ file_obj = "file"
    /\ elapsed = 0 /\ poll_state = "" /\ poll_exit = "" /\ queries = 0
    /\ processed_file = "unset"
    /\ retry_count = 0 /\ gen_calls = 0 /\ gen_empties = 0 /\ gen_sleeps = 0
    /\ error_message = "" /\ reply = <<>>
    /\ invoked = {<<AllPaths[1], "upload_file">>}
    /\ analysed = <<AllPaths[1]>>
    /\ csv_reads = 0
    /\ pacing = 0
    /\ pacing_delay = 0
    /\ format_arg = ""
    /\ saved = <<>>
    /\ printed = <<>>

\* line 139: the sleep ends on time or up to MaxOverrun seconds late
SleepRuns(e) == {e + check_interval + late : late \in {0, MaxOverrun}}

PollOn == PollPass(SleepRuns(elapsed))

PollNext == PollOn

PollSpec == PollInit /\ [][PollNext]_vars /\ WF_vars(PollNext)

(***************************************************************************)
(* The program run again: what a run saved as results.csv is the           *)
(* results.csv the next run of the same directory reads.  The first run    *)
(* has returned one success result in the two-line template.               *)
(***************************************************************************)
\* The rows of a csv text, as csv.reader yields them: a character is
\* outside the quotes when an even number of quotes comes before it
Outside(t, k) == Cardinality({j \in 1..(k - 1) : t[j] = "\""}) % 2 = 0

Cuts(t, c) == {k \in 1..Len(t) : t[k] = c /\ Outside(t, k)}

RECURSIVE SplitAt(_, _, _)
SplitAt(t, from, cuts) ==
    IF cuts = {} THEN <<SubSeq(t, from, Len(t))>>
    ELSE LET k == CHOOSE j \in cuts : \A m \in cuts : j <= m IN
         <<SubSeq(t, from, k - 1)>> \o SplitAt(t, k + 1, cuts \ {k})

RECURSIVE Undouble(_)
Undouble(f) ==
    IF f = <<>> THEN <<>>
    ELSE IF Len(f) > 1 /\ f[1] = "\"" /\ f[2] = "\""
    THEN <<"\"">> \o Undouble(Tail(Tail(f)))
    ELSE <<Head(f)>> \o Undouble(Tail(f))

Unquote(f) ==
    IF f # <<>> /\ Head(f) = "\"" THEN Undouble(SubSeq(f, 2, Len(f) - 1)) ELSE f

CsvFields(line) ==
    LET l == IF line # <<>> /\ line[Len(line)] = "\r"
             THEN SubSeq(line, 1, Len(line) - 1) ELSE line
        parts == SplitAt(l, 1, Cuts(l, ","))
    IN [k \in 1..Len(parts) |-> Unquote(parts[k])]

CsvRows(t) ==
    LET lines == SplitAt(t, 1, Cuts(t, "\n"))
        n == IF lines[Len(lines)] = <<>> THEN Len(lines) - 1 ELSE Len(lines)
    IN [k \in 1..n |-> CsvFields(lines[k])]

\* line 309: Path("results.csv")
ResultsCsvPath == sResults \o <<".">> \o sCsv

\* lines 430-431 and 313: the text of a file as open(path, "r") hands it
\* on after open(path, "w") wrote it: "\r\n" and a lone "\r" are read as
\* "\n" (the write leaves the text as it is where os.linesep is "\n")
ReadText(t) ==
    LET kept == {k \in 1..Len(t) : ~(t[k] = "\r" /\ k < Len(t) /\ t[k + 1] = "\n")}
        Nth(n) == CHOOSE k \in kept : Cardinality({j \in kept : j < k}) = n - 1
    IN [n \in 1..Cardinality(kept) |->
           IF t[Nth(n)] = "\r" THEN "\n" ELSE t[Nth(n)]]

\* lines 313-316: the rows csv.reader yields for a saved text
ReadBack(content) ==
    [k \in 1..Len(CsvRows(ReadText(content))) |->
        GoodRow(CsvRows(ReadText(content))[k])]

FieldCR == <<"a", "\r", "b">>
TripFields == {Field1, FieldQuoted, FieldList, FieldCR}

TripInit ==
    /\ \E f \in {AllPaths[1], AllPaths[3]} :
          /\ video_path = [kind |-> "dir", files |-> <<f>>]
          /\ video_files = <<f>>
          /\ analysed = <<f>>
          /\ invoked = {<<f, "upload_file">>, <<f, "get_file">>, <<f, "generate_content">>}
          /\ \E description \in TripFields, tags \in TripFields :
                results = <<SuccessResult(f, Reconstitute(description, tags))>>
    /\ results_csv = [exists |-> FALSE, rows |-> <<>>]
    /\ force_retry = FALSE
    /\ specific_file = <<>>
    /\ last_output = <<>>
    /\ pc = "done"
    /\ previous_results = <<>>
    /\ previous_processed = {}
    /\ i = 2
    /\ LocalsInit
    /\ csv_reads = 0
    /\ pacing = 0
    /\ pacing_delay = 0
    /\ format_arg = ""
    /\ saved = <<>>
    /\ printed = <<>>

\* lines 434-438 and 309-313: the program is started again on the same
\* directory after a run that saved its output as results.csv
Rerun ==
    /\ pc = "exit"
    /\ saved # <<>>
    /\ saved[1].path = ResultsCsvPath
    /\ Len(last_output) < MaxReruns
    /\ results_csv' = [exists |-> TRUE, rows |-> ReadBack(saved[1].content)]
    /\ last_output' = Append(last_output, saved[1].content)
    /\ pc' = "start"
    /\ video_files' = <<>>
    /\ previous_results' = <<>>
    /\ previous_processed' = {}
    /\ results' = <<>>
    /\ i' = 0
    /\ invoked' = {}
    /\ analysed' = <<>>
    /\ csv_reads' = 0
    /\ pacing' = 0
    /\ pacing_delay' = 0
    /\ format_arg' = ""
    /\ saved' = <<>>
    /\ printed' = <<>>
    /\ UNCHANGED <<video_path, force_retry, specific_file, ret, upvars, pollvars, genvars>>

TripNext ==
    \/ Main
    \/ Rerun
    \/ CollectVideoFiles
    \/ CheckPreviousResults
    \/ ExtendPrevious

TripSpec == TripInit /\ [][TripNext]_vars

(***************************************************************************)
(* Properties.                                                             *)
(***************************************************************************)
\* analyze_video is running, or has just returned
Analysing == pc \in {"upload", "uploaded", "poll", "polled", "generate", "analyzed"}

\* process_videos has returned
Returned == pc \in {"done", "exit"}

\* the remote operations invoked for a path
OpsOf(p) == {c[2] : c \in {d \in invoked : d[1] = p}}

\* every character of t is white space
Blank(t) == \A k \in 1..Len(t) : t[k] \in Whitespace

\* the place of a path in a listing
IndexIn(listing, p) == CHOOSE k \in 1..Len(listing) : listing[k] = p

\* C1: in a directory run every file of the to-process list is handed to
\* analyze_video, in order, and contributes exactly one result, a success
\* {filename, response} or an error {filename, error}; the run ends only
\* when every file has been through, whatever the earlier files returned.
C1_EveryFileOneResult ==
    (IsDir /\ pc \notin {"start", "previous"}) =>
        /\ analysed = SubSeq(video_files, 1, IF pc \in {"loop", "done", "exit"} THEN i - 1 ELSE i)
        /\ Len(results) = (i - 1) + (IF Returned THEN Len(previous_results) ELSE 0)
        /\ \A k \in 1..(i - 1) :
              /\ results[k].filename = video_files[k].name
              /\ \/ DOMAIN results[k] = {"filename", "response"}
                 \/ DOMAIN results[k] = {"filename", "error"}
        /\ (Returned => i = Len(video_files) + 1)

\* C1 witness: a directory run of two files has ended; the first file
\* failed at upload and the second was still analysed with success.
C1_Witness ==
    /\ IsDir /\ pc = "done"
    /\ Len(video_files) = 2
    /\ IsError(results[1]) /\ results[1].error = MsgUpload
    /\ IsSuccess(results[2])

\* C2: the stages run in the order validator, upload, poll, generate and
\* the first failing stage ends the call with its own message: no remote
\* operation for a file the validator rejects, no state query unless the
\* upload returned a handle, no generation unless the poller returned a
\* handle whose state was ACTIVE.
C2_StagesInOrder ==
    /\ \A c \in invoked : is_valid_video_file(c[1])
    /\ Analysing =>
          /\ "get_file" \in OpsOf(CurPath) =>
                file_obj = "file" /\ "upload_file" \in OpsOf(CurPath)
          /\ "generate_content" \in OpsOf(CurPath) =>
                /\ processed_file = "file"
                /\ poll_state = "ACTIVE"
                /\ "get_file" \in OpsOf(CurPath)
    /\ (pc = "analyzed" /\ IsError(ret[1])) =>
          /\ ret[1].error = MsgInvalid <=> ~is_valid_video_file(CurPath)
          /\ ret[1].error = MsgInvalid => OpsOf(CurPath) = {}
          /\ ret[1].error = MsgUpload <=> file_obj = "None"
          /\ ret[1].error = MsgUpload => OpsOf(CurPath) = {"upload_file"}
          /\ ret[1].error = MsgProcessing <=> processed_file = "None"
          /\ ret[1].error = MsgProcessing => OpsOf(CurPath) = {"upload_file", "get_file"}
          /\ ret[1].error \notin {MsgInvalid, MsgUpload, MsgProcessing} =>
                /\ gen_calls > 0
                /\ ret[1].error \in {MsgEmpty, IndexErrorMsg} \cup GenErrors
    /\ (pc = "analyzed" /\ IsSuccess(ret[1])) =>
          OpsOf(CurPath) = {"upload_file", "get_file", "generate_content"}

\* C2 witness: a file stopped at the poll stage, after its upload and at
\* least one state query, with the poll stage's message.
C2_Witness ==
    /\ pc = "analyzed"
    /\ IsError(ret[1]) /\ ret[1].error = MsgProcessing
    /\ OpsOf(CurPath) = {"upload_file", "get_file"}
    /\ poll_state = "FAILED"

\* the rows csv.reader yields after the header, up to where it raises
RECURSIVE UntilBad(_)
UntilBad(rows) ==
    IF rows = <<>> \/ Head(rows).bad THEN <<>>
    ELSE <<Head(rows)>> \o UntilBad(Tail(rows))

ReadableRows ==
    IF results_csv.rows = <<>> THEN <<>> ELSE UntilBad(Tail(results_csv.rows))

\* C3: in a directory run with force_retry false and a results.csv, a file
\* whose name has a fully populated row is not handed to the pipeline (no
\* upload, no poll, no generation), and the returned list holds the
\* result reconstituted from that row.
C3_PopulatedRowsSkipped ==
    (IsDir /\ ~force_retry /\ results_csv.exists /\ pc \notin {"start", "previous"}) =>
        \A k \in 1..Len(ReadableRows) :
            RowPopulated(ReadableRows[k]) =>
                /\ \A c \in invoked : c[1].name # ReadableRows[k].fields[1]
                /\ \A j \in 1..Len(analysed) :
                      analysed[j].name # ReadableRows[k].fields[1]
                /\ Returned =>
                      \E j \in 1..Len(results) :
                          results[j] =
                             [filename |-> ReadableRows[k].fields[1],
                              response |-> Reconstitute(ReadableRows[k].fields[2],
                                                        ReadableRows[k].fields[3])]

\* C4: the list a directory run returns is the fresh results, in the
\* order the directory was enumerated, followed by the reconstituted
\* results in the order of their rows in results.csv.
C4_FreshThenReconstituted ==
    (IsDir /\ Returned) =>
        LET n == Len(video_files)
            prev == IF ~force_retry /\ results_csv.exists
                    THEN ReadCsv(results_csv.rows).prev
                    ELSE <<>>
        IN /\ Len(results) = n + Len(prev)
           /\ \A k \in 1..n : results[k].filename = video_files[k].name
           /\ \A k \in 1..Len(prev) : results[n + k] = prev[k]
           /\ \A a, b \in 1..n :
                 a < b => IndexIn(video_path.files, video_files[a])
                              < IndexIn(video_path.files, video_files[b])

\* C4 witness: a run returned two fresh results followed by a
\* reconstituted one.
C4_Witness ==
    /\ IsDir /\ pc = "done"
    /\ Len(video_files) = 2
    /\ Len(previous_results) = 1
    /\ Len(results) = 3
    /\ results[3] = previous_results[1]
    /\ results[1].filename # results[3].filename

\* C5 as stated: the poller returns failure exactly when the elapsed time
\* exceeds max_wait_time, and returns a handle only when the state query
\* reported ACTIVE.
C5_FailureExactlyOnTimeout ==
    [][(pc = "poll" /\ pc' = "polled") =>
          /\ processed_file' = "None" <=> elapsed > max_wait_time
          /\ processed_file' = "file" => poll_state' = "ACTIVE"]_vars

\* C5 amended: a pass that starts with the elapsed time above
\* max_wait_time returns failure without asking the remote, and no other
\* pass reports a timeout; failure is also returned, within max_wait_time,
\* when the state is FAILED or the query raises; a handle is returned only
\* when the query of that pass reported ACTIVE.
C5_PollerOutcome ==
    [][pc = "poll" =>
          /\ elapsed > max_wait_time =>
                /\ pc' = "polled"
                /\ processed_file' = "None"
                /\ invoked' = invoked
          /\ poll_exit' = "timeout" <=> elapsed > max_wait_time
          /\ pc' = "polled" =>
                /\ processed_file' \in {"None", "file"}
                /\ processed_file' = "file" <=> poll_exit' = "active"
                /\ processed_file' = "None" <=>
                      poll_exit' \in {"timeout", "failed", "error"}
                /\ poll_exit' = "active" => poll_state' = "ACTIVE"
                /\ poll_exit' = "failed" => poll_state' = "FAILED"
          /\ pc' = "poll" => poll_state' \notin {"ACTIVE", "FAILED"}]_vars

\* C5 witness: the poller has returned failure on a timeout while the
\* remote still reported PROCESSING.
C5_Witness ==
    /\ pc = "polled"
    /\ poll_exit = "timeout"
    /\ processed_file = "None"
    /\ poll_state = "PROCESSING"

\* C6: one upload call invokes the remote upload at most max_retries + 1
\* times, returns the handle of the first try that does not raise, fails
\* if and only if all max_retries + 1 tries raised, and sleeps once
\* between two tries: max_retries sleeps on failure, none after the last.
C6_UploadTries ==
    /\ pc = "upload" =>
          /\ up_calls <= max_retries
          /\ up_retry = up_calls
          /\ up_sleeps = up_calls
          /\ file_obj = "unset"
    /\ pc = "uploaded" =>
          /\ file_obj \in {"file", "None"}
          /\ up_calls <= max_retries + 1
          /\ file_obj = "file" =>
                /\ up_retry = up_calls - 1
                /\ up_sleeps = up_calls - 1
          /\ file_obj = "None" =>
                /\ up_retry = max_retries + 1
                /\ up_calls = max_retries + 1
                /\ up_sleeps = max_retries
          /\ up_retry = max_retries + 1 => file_obj = "None"

\* C6 witness: an upload call has failed after max_retries + 1 tries and
\* max_retries sleeps.
C6_Witness ==
    /\ pc = "uploaded"
    /\ file_obj = "None"
    /\ up_calls = max_retries + 1
    /\ up_sleeps = max_retries

\* C7: within one upload call the delay slept before retry n is
\* base_delay * 2^n plus a jitter in [0, 1], so at least base_delay * 2^n,
\* and each delay is longer than the one before, for n up to max_retries.
C7_BackoffGrows ==
    /\ Len(up_delays) <= max_retries
    /\ pc = "upload" => Len(up_delays) = up_retry
    /\ \A n \in 1..Len(up_delays) :
          /\ up_delays[n] >= base_delay * Pow2(n)
          /\ up_delays[n] <= base_delay * Pow2(n) + 1
          /\ n > 1 => up_delays[n] > up_delays[n - 1]

\* C7 witness: max_retries delays have been slept, the first with the
\* largest jitter and the second with the smallest.
C7_Witness ==
    /\ pc = "upload"
    /\ Len(up_delays) = max_retries
    /\ up_delays[1] = base_delay * 2 + 1
    /\ up_delays[2] = base_delay * 4

\* C8: an empty or all-blank response text is retried, at most
\* analyze_max_retries times; it ends the call only as the last allowed
\* try, with the empty-response error; when every try returned empty text
\* there were exactly analyze_max_retries + 1 tries; and no success
\* result, fresh or returned, carries an empty or all-blank text.
C8_EmptyResponses ==
    /\ pc = "generate" => gen_calls <= analyze_max_retries /\ gen_empties <= gen_calls
    /\ (pc = "analyzed" /\ reply # <<>> /\ Blank(reply[1])) =>
          /\ gen_calls = analyze_max_retries + 1
          /\ ret = <<ErrorResult(CurPath, MsgEmpty)>>
    /\ (pc = "analyzed" /\ gen_calls > 0 /\ gen_empties = gen_calls) =>
          /\ gen_calls = analyze_max_retries + 1
          /\ ret = <<ErrorResult(CurPath, MsgEmpty)>>
    /\ \A k \in 1..Len(ret) : IsSuccess(ret[k]) => ~Blank(ret[k].response)
    /\ \A k \in 1..Len(results) : IsSuccess(results[k]) => ~Blank(results[k].response)

\* C8 witness: every one of analyze_max_retries + 1 tries returned empty
\* text, the last of them all-blank, and the call returned the
\* empty-response error.
C8_Witness ==
    /\ pc = "analyzed"
    /\ gen_calls = analyze_max_retries + 1
    /\ gen_empties = gen_calls
    /\ reply = <<TextBlank>>
    /\ ret = <<ErrorResult(CurPath, MsgEmpty)>>

\* C9: a response text that is not empty is never retried and never an
\* error, whatever its format and the letter case of its markers: the try
\* that received it returns a success result.
C9_MalformedAccepted ==
    (pc \in {"generate", "analyzed"} /\ reply # <<>> /\ ~Blank(reply[1])) =>
        /\ pc = "analyzed"
        /\ IsSuccess(ret[1])

\* some line of t holds the marker, in any letter case
HasMarkerLine(t, mark) ==
    \E k \in 1..Len(SplitLines(t)) : Contains(Lower(SplitLines(t)[k]), mark)

\* C10: for a response text without the literal "Description:" and
\* "Tags:" but with a line holding "description:" and a line holding
\* "tags:" in any letter case, the repair yields a text with both
\* "- Description:" and "- Tags:".
C10_RepairYieldsMarkers ==
    (/\ pc \in {"generate", "analyzed"}
     /\ reply # <<>>
     /\ ~Contains(reply[1], LitDescription)
     /\ ~Contains(reply[1], LitTags)
     /\ HasMarkerLine(reply[1], MarkDescriptionLower)
     /\ HasMarkerLine(reply[1], MarkTagsLower)) =>
        /\ pc = "analyzed"
        /\ IsSuccess(ret[1])
        /\ Contains(ret[1].response, CanonDescription)
        /\ Contains(ret[1].response, CanonTags)

\* the text main put out
Output == IF saved # <<>> THEN saved[1].content ELSE printed[1]

\* the stripped lines of a response text that start with a prefix
PrefixedLines(text, prefix) ==
    {k \in 1..Len(SplitLines(Strip(text))) :
        StartsWith(Strip(SplitLines(Strip(text))[k]), prefix)}

\* the last of them, the prefix taken out
PrefixedValue(text, prefix) ==
    LET k == CHOOSE j \in PrefixedLines(text, prefix) :
                 \A m \in PrefixedLines(text, prefix) : m <= j
    IN Strip(Remove(Strip(SplitLines(Strip(text))[k]), prefix))

\* no line of the text holds the marker, in any letter case
NoMarker(text, mark) ==
    \A k \in 1..Len(SplitLines(Strip(text))) :
        ~Contains(Lower(SplitLines(Strip(text))[k]), mark)

\* what C11 says of the row of one result; hollow tells whether the rule
\* for prefixed lines is also applied when both prefixed values are empty
RowAsClaimed(r, row, hollow) ==
    /\ Len(row) = 3
    /\ row[1] = r.filename
    /\ IsError(r) => row[2] = sError \o <<r.error>> /\ row[3] = <<>>
    /\ (/\ IsSuccess(r)
        /\ PrefixedLines(r.response, CanonDescription) # {}
        /\ PrefixedLines(r.response, CanonTags) # {}
        /\ \/ hollow
           \/ PrefixedValue(r.response, CanonDescription) # <<>>
           \/ PrefixedValue(r.response, CanonTags) # <<>>) =>
          /\ row[2] = PrefixedValue(r.response, CanonDescription)
          /\ row[3] = PrefixedValue(r.response, CanonTags)
    /\ (/\ IsSuccess(r)
        /\ NoMarker(r.response, MarkDescriptionLower)
        /\ NoMarker(r.response, MarkTagsLower)) =>
          row[2] = <<>> /\ row[3] = <<>>

TableAsClaimed(hollow) ==
    (pc = "exit" /\ format_arg = "csv") =>
        LET rows == CsvRows(Output) IN
        /\ Len(rows) = Len(results) + 1
        /\ rows[1] = HeaderFields
        /\ \A k \in 1..Len(results) : RowAsClaimed(results[k], rows[k + 1], hollow)

\* C11 as stated: the csv text is the header row and then one row for each
\* result, in order; an error result gives (filename, "ERROR: " + message,
\* ""); a success result whose text has a line prefixed "- Description:"
\* and a line prefixed "- Tags:" gives the two values with the prefixes
\* removed; a success result without either marker, in any letter case,
\* gives two empty columns.
C11_TabularRowsAsStated == TableAsClaimed(TRUE)

\* C11 amended: as above, but the prefixed lines decide the row only when
\* one of the two prefixed values is not empty; when both are empty the
\* case-insensitive pass is run over the lines as well.
C11_TabularRows == TableAsClaimed(FALSE)

\* C11 witness: a success result whose tags hold a comma and an error
\* result were written as csv.
C11_Witness ==
    /\ pc = "exit" /\ format_arg = "csv"
    /\ Len(results) = 2
    /\ IsSuccess(results[1])
    /\ FormatRow(results[1]) = <<NameA, FieldQuoted, FieldList>>
    /\ IsError(results[2])
    /\ saved # <<>>

\* C12: in a directory run with specific_file given, only files of exactly
\* that name, with an extension of the allow-list, are on the to-process
\* list and are handed to analyze_video; no remote operation is invoked
\* for a file of another name, in whatever directory it lies.
C12_OnlySpecificFile ==
    (IsDir /\ specific_file # <<>>) =>
        /\ pc # "start" =>
              \A k \in 1..Len(video_files) :
                  /\ video_files[k].name = specific_file
                  /\ HasVideoExtension(video_files[k])
        /\ \A k \in 1..Len(analysed) :
              /\ analysed[k].name = specific_file
              /\ HasVideoExtension(analysed[k])
        /\ \A c \in invoked : c[1].name = specific_file

\* C12 witness: the directory holds a video of another name and a file of
\* the given name one level down; the run has ended having analysed only
\* files of the given name.
C12_Witness ==
    /\ IsDir /\ specific_file = NameA /\ pc = "done"
    /\ \E k \in 1..Len(video_path.files) :
          video_path.files[k].name = NameB /\ HasVideoExtension(video_path.files[k])
    /\ analysed # <<>>
    /\ invoked # {}

\* C13: results.csv is read at most once, in a directory run before the
\* first file is analysed, and nothing is written while process_videos
\* runs; the one write of output is made by main after process_videos
\* returned, and none is made when the returned list is empty.
C13_ResultsFileUntouched ==
    /\ csv_reads <= 1
    /\ csv_reads = 1 => IsDir /\ ~force_retry /\ results_csv.exists
    /\ pc \in {"start", "previous"} => csv_reads = 0 /\ analysed = <<>>
    /\ (IsDir /\ ~force_retry /\ results_csv.exists /\ pc \notin {"start", "previous"}) =>
          csv_reads = 1
    /\ pc # "exit" => saved = <<>> /\ printed = <<>>
    /\ Len(saved) <= 1
    /\ (pc = "exit" /\ results = <<>>) => saved = <<>> /\ printed = <<>>
    /\ saved # <<>> => saved[1].content = format_output(results, format_arg)

\* C13 witness: a directory run read results.csv once and main then saved
\* the output as results.csv.
C13_Witness ==
    /\ pc = "exit"
    /\ csv_reads = 1
    /\ analysed # <<>>
    /\ saved # <<>>
    /\ saved[1].path = sResults \o <<".">> \o sCsv

\* C14: results.csv is consulted only in a directory run with force_retry
\* false.  A single-file run returns exactly one result and hands the file
\* to analyze_video even when results.csv has a populated row for it; with
\* force_retry true every enumerated file is handed to analyze_video and
\* the returned list holds no reconstituted result.
C14_PriorOnlyInDirRuns ==
    /\ csv_reads > 0 => IsDir /\ ~force_retry
    /\ (IsFile /\ Returned) =>
          /\ analysed = video_path.files
          /\ Len(results) = 1
          /\ results[1].filename = video_path.files[1].name
          /\ previous_results = <<>>
    /\ (IsDir /\ force_retry /\ Returned) =>
          /\ analysed = SelectSeq(video_path.files, Wanted)
          /\ Len(results) = Len(analysed)
          /\ \A k \in 1..Len(results) : results[k].filename = analysed[k].name
          /\ previous_results = <<>>

\* C14 witness: a single-file run on a file for which results.csv has a
\* populated row returned one fresh success result.
C14_Witness ==
    /\ IsFile /\ pc = "done"
    /\ results_csv.exists
    /\ \E k \in 2..Len(results_csv.rows) :
          /\ ~results_csv.rows[k].bad
          /\ results_csv.rows[k].fields[1] = video_path.files[1].name
          /\ results_csv.rows[k].fields[2] # <<>>
          /\ results_csv.rows[k].fields[3] # <<>>
    /\ Len(results) = 1
    /\ IsSuccess(results[1])
    /\ OpsOf(video_path.files[1]) = {"upload_file", "get_file", "generate_content"}

\* the rows of results.csv that name a file
RowsNaming(name) ==
    {k \in 2..Len(results_csv.rows) :
        /\ ~results_csv.rows[k].bad
        /\ Len(results_csv.rows[k].fields) >= 1
        /\ results_csv.rows[k].fields[1] = name}

\* the description or the tags column of the row is empty
RowHollow(fields) == Len(fields) < 3 \/ fields[2] = <<>> \/ fields[3] = <<>>

C16_PollerStateMachine ==
    [][/\ pc = "poll" =>
             /\ elapsed > max_wait_time =>
                   /\ pc' = "polled" /\ poll_exit' = "timeout"
                   /\ queries' = queries
             /\ elapsed <= max_wait_time => queries' = queries + 1
             /\ pc' \in {"poll", "polled"}
             /\ pc' = "poll" =>
                   /\ poll_state' \notin {"ACTIVE", "FAILED"}
                   /\ elapsed' >= elapsed + check_interval
                   /\ processed_file' = "unset" /\ poll_exit' = ""
             /\ pc' = "polled" =>
                   /\ poll_exit' \in {"timeout", "active", "failed", "error"}
                   /\ poll_exit' = "active" =>
                         poll_state' = "ACTIVE" /\ processed_file' = "file"
                   /\ poll_exit' = "failed" =>
                         poll_state' = "FAILED" /\ processed_file' = "None"
                   /\ poll_exit' = "error" =>
                         poll_state' = poll_state /\ processed_file' = "None"
                   /\ poll_exit' = "timeout" => processed_file' = "None"
       /\ pc # "poll" =>
             /\ queries' \in {queries, 0}
             /\ \A c \in invoked' \ invoked : c[2] # "get_file"
             /\ elapsed' = elapsed]_vars

\* C16 witness: the second state query of a call raised, after a sleep,
\* and the poller returned failure.
C16_Witness ==
    /\ pc = "polled"
    /\ poll_exit = "error"
    /\ queries = 2
    /\ poll_state = "PROCESSING"
    /\ processed_file = "None"

\* C17: with sleeps that last at least check_interval the poller makes at
\* most max_wait_time \div check_interval + 1 state queries, whatever the
\* remote reports, and it returns.
C17_PollerTerminates ==
    /\ [](/\ queries <= max_wait_time \div check_interval + 1
          /\ pc = "poll" => queries * check_interval <= elapsed)
    /\ <>(pc = "polled")

\* C17 witness: the remote reported PROCESSING at every query, each sleep
\* ended on time, and the poller returned the timeout after
\* max_wait_time \div check_interval + 1 queries.
C17_Witness ==
    /\ pc = "polled"
    /\ poll_exit = "timeout"
    /\ poll_state = "PROCESSING"
    /\ queries = max_wait_time \div check_interval + 1

\* C18: in one analyze_video call every failed try, empty response or
\* exception, counts against the same retry_count: generate_content is
\* invoked at most analyze_max_retries + 1 times, the call returns a
\* result, an error only after analyze_max_retries + 1 failed tries, and
\* when the last try raised, the error is the message of that exception.
C18_SharedRetryBudget ==
    /\ gen_calls <= analyze_max_retries + 1
    /\ gen_empties <= gen_calls
    /\ pc = "generate" =>
          /\ retry_count = gen_calls
          /\ gen_calls <= analyze_max_retries
    /\ (pc = "analyzed" /\ gen_calls > 0) =>
          /\ Len(ret) = 1
          /\ IsError(ret[1]) <=> retry_count = analyze_max_retries + 1
          /\ IsError(ret[1]) => gen_calls = analyze_max_retries + 1
          /\ IsSuccess(ret[1]) => retry_count = gen_calls - 1
          /\ (IsError(ret[1]) /\ reply = <<>>) =>
                /\ ret[1].error = error_message
                /\ error_message \in GenErrors
          /\ (IsError(ret[1]) /\ reply # <<>> /\ ~Blank(reply[1])) =>
                /\ ret[1].error = error_message
                /\ error_message = IndexErrorMsg
          /\ (IsError(ret[1]) /\ reply # <<>> /\ Blank(reply[1])) =>
                ret[1].error = MsgEmpty

\* C18 witness: two empty responses and an IndexError were followed by a
\* try on which generate_content raised; the call returned that message.
C18_Witness ==
    /\ pc = "analyzed"
    /\ gen_calls = analyze_max_retries + 1
    /\ gen_empties = 2
    /\ reply = <<>>
    /\ IsError(ret[1])
    /\ ret[1].error \in GenErrors

\* C19: a directory run that processes n files makes n - 1 pacing sleeps,
\* none for n = 0, each of wait_time + 1 to wait_time + 3 seconds, one
\* after each file but the last; file k + 1 is handed to analyze_video
\* only after the k-th pacing sleep.
C19_PacingSleeps ==
    /\ ~IsDir => pacing = 0
    /\ pacing_delay \in {0} \cup (wait_time + 1)..(wait_time + 3)
    /\ (IsDir /\ pc \notin {"start", "previous"}) =>
          LET n == Len(video_files) IN
          /\ Analysing => pacing = i - 1 /\ pacing_delay = 0
          /\ pc = "loop" =>
                /\ pacing = (IF i <= n THEN i - 1 ELSE IF n = 0 THEN 0 ELSE n - 1)
                /\ (1 < i /\ i <= n) => pacing_delay >= wait_time + 1
          /\ Returned => pacing = (IF n = 0 THEN 0 ELSE n - 1)

\* C19 witness: between the first and the second file of two the longest
\* pacing sleep has been made.
C19_Witness ==
    /\ IsDir /\ pc = "loop"
    /\ Len(video_files) = 2
    /\ i = 2
    /\ pacing = 1
    /\ pacing_delay = wait_time + 3

\* C20: after a directory run with force_retry false no filename is in
\* the returned list both as a fresh result and as a reconstituted one.
C20_FreshOrReconstituted ==
    (IsDir /\ ~force_retry /\ Returned) =>
        \A a \in 1..Len(analysed), b \in 1..Len(previous_results) :
            /\ Len(results) = Len(analysed) + Len(previous_results)
            /\ results[a].filename # results[Len(analysed) + b].filename

\* C21: a success result in the two-line template with a description
\* and tags is written as csv, the file is read back by the next run of
\* the directory with force_retry false, and the reconstituted result is
\* written as csv again: the text is the one written before, row for row
\* (same filename, description and tags).
C21_RoundTrip ==
    (/\ pc = "exit"
     /\ last_output # <<>>
     /\ format_arg = "csv"
     /\ saved # <<>>) =>
        /\ CsvRows(saved[1].content) = CsvRows(last_output[Len(last_output)])
        /\ saved[1].content = last_output[Len(last_output)]

====
